---------------------------- MODULE Spec2Model ----------------------------
(***************************************************************************)
(* A model of draw_rink (rink_plot.py): the normalisation of the x and y   *)
(* display ranges, the figure size, the catalogue of rink shapes and the   *)
(* axis limits handed to the plotting surface.                             *)
(*                                                                         *)
(* Numbers.  Every coordinate is an integer count of 1/Ft of a foot, so    *)
(* that 42.5, 1.75, 67/24 and 20.0/12 are exact.  np.sqrt and **.5 are     *)
(* the integer square root at that resolution (the largest representable   *)
(* value whose square does not exceed the argument).  The figure size is   *)
(* kept as an exact fraction <<numerator, denominator>>.                   *)
(*                                                                         *)
(* Python values.  An argument of draw_rink is a record with a type tag:   *)
(* None, a number, a string, or a reference to a list object of the        *)
(* caller; the list objects live in heap.  Python 3 comparison rules: an   *)
(* ordering or max/min between a number and a string raises TypeError.     *)
(***************************************************************************)
EXTENDS Integers, Sequences, FiniteSets, TLC

\* units per foot: 1200, a multiple of 24 (67/24), 12 (20.0/12) and 4 (1.75)
Ft == 24 * 50

\* the literal 42.5
Y42_5 == (85 * Ft) \div 2

\* longest list the caller passes as x_range or y_range
MaxLen == 2

---------------------------------------------------------------------------
(* Python values *)

None == [t |-> "None", v |-> 0, s |-> "", ref |-> ""]
Num(n) == [t |-> "num", v |-> n, s |-> "", ref |-> ""]
Str(s) == [t |-> "str", v |-> 0, s |-> s, ref |-> ""]
ListRef(r) == [t |-> "list", v |-> 0, s |-> "", ref |-> r]

\* the list object the caller passes as x_range, and the one passed as y_range
XObj == "xs"
YObj == "ys"

\* single numbers the caller passes: below the domain, inside it, on its
\* upper edge, above it
NumVals == {-150 * Ft, 0, 60 * Ft, 100 * Ft, 150 * Ft}

\* elements of the lists the caller passes: numbers and one non-number
ElemVals == {Num(-150 * Ft), Num(0), Num(60 * Ft), Num(150 * Ft), Str("a")}

StrVals == {"half", "ozone", "full"}

\* elements past the second, which draw_rink never reads (lines 81, 99)
TailVals == {Num(0), Str("a")}

ListsOfLen(n) ==
    IF n <= 2 THEN [1..n -> ElemVals]
    ELSE {h \o t : h \in [1..2 -> ElemVals], t \in [1..(n - 2) -> TailVals]}

Lists == UNION {ListsOfLen(n) : n \in 0..MaxLen}

\* explicit rink_length values the caller passes
LengthVals == {10}

Max(a, b) == IF b > a THEN b ELSE a
Min(a, b) == IF b < a THEN b ELSE a
Abs(a) == IF a < 0 THEN -a ELSE a

RECURSIVE GCD(_, _)
GCD(a, b) == IF b = 0 THEN a ELSE GCD(b, a % b)

\* the exact quotient n / d, d # 0, in lowest terms with a positive denominator
Rat(n, d) ==
    LET g == GCD(Abs(n), Abs(d))
        sg == IF d < 0 THEN -1 ELSE 1
    IN  <<sg * (n \div g), sg * (d \div g)>>

RECURSIVE IsqrtIn(_, _, _)
IsqrtIn(n, lo, hi) ==
    IF lo >= hi THEN lo
    ELSE LET mid == (lo + hi + 1) \div 2
         IN  IF mid * mid <= n THEN IsqrtIn(n, mid, hi)
             ELSE IsqrtIn(n, lo, mid - 1)

\* np.sqrt / **.5 at the model's resolution
Isqrt(n) == IsqrtIn(n, 0, 40000)

---------------------------------------------------------------------------
VARIABLES
    is_horizontal,  \* argument
    x_arg,          \* argument x_range as the caller passed it
    y_arg,          \* argument y_range as the caller passed it
    length_arg,     \* argument rink_length as the caller passed it
    heap,           \* the caller's list objects: object -> elements
    x_range,        \* local x_range once lines 75-91 have bound it; <<>> before
    y_range,        \* local y_range once lines 93-109 have bound it; <<>> before
    rink_length,    \* local rink_length after line 114; 0 before
    figsize,        \* figsize handed to plt.figure: <<length, width>>, fractions
    patches,        \* local list patches
    lines,          \* ax.lines: one entry per ax.plot call
    side,           \* loop variable of the side loop
    trans,          \* rotation (degrees) set on every patch and line; -1 before
    ax_patches,     \* patches added to the axes
    xlim,           \* limits handed to ax.set_xlim; <<>> before
    ylim,           \* limits handed to ax.set_ylim; <<>> before
    inverted,       \* display axes on which invert was called
    pc,             \* position in draw_rink
    err             \* exception raised, "none" if none

vars == <<is_horizontal, x_arg, y_arg, length_arg, heap, x_range, y_range,
          rink_length, figsize, patches, lines, side, trans, ax_patches,
          xlim, ylim, inverted, pc, err>>

range_vars == <<x_range, y_range>>
size_vars == <<rink_length, figsize>>
shape_vars == <<patches, lines, side>>
axes_vars == <<trans, ax_patches, xlim, ylim, inverted>>
arg_vars == <<is_horizontal, x_arg, y_arg, length_arg>>

---------------------------------------------------------------------------
(* Range normalisation, lines 75-109 *)

IsNumber(a) == a.t = "num"

\* x_range.append(100) / y_range.append(42.5): the list object itself grows
ListAppend(h, a, e) == [h EXCEPT ![a.ref] = Append(@, e)]

IsNonEmptyList(h, a) == a.t = "list" /\ h[a.ref] # <<>>

\* the heap after lines 75-83
XHeap(h, a) ==
    IF ~(a.t = "str" /\ a.s \in {"half", "ozone"}) /\ ~IsNumber(a)
       /\ IsNonEmptyList(h, a)
    THEN ListAppend(h, a, Num(100 * Ft))
    ELSE h

\* lines 75-83 with the two presets exchanged on line 76
XBind_PresetsExchanged(h, a) ==
    IF a.t = "str" /\ a.s \in {"half", "ozone"}
    THEN <<Num(IF a.s = "ozone" THEN 0 ELSE 25 * Ft), Num(100 * Ft)>>
    ELSE IF IsNumber(a) THEN <<a, Num(100 * Ft)>>
    ELSE IF IsNonEmptyList(h, a) THEN SubSeq(XHeap(h, a)[a.ref], 1, 2)
    ELSE <<Num(-100 * Ft), Num(100 * Ft)>>

\* the list bound to x_range by lines 75-83
XBind(h, a) ==
    IF a.t = "str" /\ a.s \in {"half", "ozone"}
    THEN <<Num(IF a.s = "half" THEN 0 ELSE 25 * Ft), Num(100 * Ft)>>
    ELSE IF IsNumber(a) THEN <<a, Num(100 * Ft)>>
    ELSE IF IsNonEmptyList(h, a) THEN SubSeq(XHeap(h, a)[a.ref], 1, 2)
    ELSE <<Num(-100 * Ft), Num(100 * Ft)>>

\* lines 85-86 and 103-104
SwapIfReversed(r) == IF r[1] > r[2] THEN <<r[2], r[1]>> ELSE r

\* line 88
XClamp(r) == <<Max(-100 * Ft, r[1]), Min(100 * Ft, r[2])>>

\* lines 90-91 with > for >=
XReset_Strict(r) == IF r[1] > 100 * Ft THEN <<-100 * Ft, 100 * Ft>> ELSE r

\* lines 90-91
XReset(r) == IF r[1] >= 100 * Ft THEN <<-100 * Ft, 100 * Ft>> ELSE r

\* the heap after lines 93-101
YHeap(h, a) ==
    IF ~(a.t = "str" /\ a.s = "half") /\ ~IsNumber(a) /\ IsNonEmptyList(h, a)
    THEN ListAppend(h, a, Num(Y42_5))
    ELSE h

\* the list bound to y_range by lines 93-101
YBind(h, a) ==
    IF a.t = "str" /\ a.s = "half" THEN <<Num(0), Num(Y42_5)>>
    ELSE IF IsNumber(a) THEN <<a, Num(Y42_5)>>
    ELSE IF IsNonEmptyList(h, a) THEN SubSeq(YHeap(h, a)[a.ref], 1, 2)
    ELSE <<Num(-Y42_5), Num(Y42_5)>>

\* line 106
YClamp(r) == <<Max(-Y42_5, r[1]), Min(100 * Ft, r[2])>>

\* lines 108-109
YReset(r) ==
    IF r[1] >= Y42_5 THEN <<-Y42_5, Y42_5>> ELSE r

\* ordering and max/min of the two bound elements raise TypeError unless both
\* are numbers (lines 85, 88, 103, 106)
Comparable(b) == IsNumber(b[1]) /\ IsNumber(b[2])

Values(b) == <<b[1].v, b[2].v>>

NormalizeX ==
    /\ pc = "x_range"
    /\ heap' = XHeap(heap, x_arg)
    /\ LET b == XBind(heap, x_arg)
       IN  IF Comparable(b)
           THEN /\ x_range' = XReset(XClamp(SwapIfReversed(Values(b))))
                /\ pc' = "y_range"
                /\ err' = err
           ELSE /\ x_range' = x_range
                /\ pc' = "raised"
                /\ err' = "TypeError"
    /\ UNCHANGED <<arg_vars, y_range, size_vars, shape_vars, axes_vars>>

NormalizeY ==
    /\ pc = "y_range"
    /\ heap' = YHeap(heap, y_arg)
    /\ LET b == YBind(heap, y_arg)
       IN  IF Comparable(b)
           THEN /\ y_range' = YReset(YClamp(SwapIfReversed(Values(b))))
                /\ pc' = "figure"
                /\ err' = err
           ELSE /\ y_range' = y_range
                /\ pc' = "raised"
                /\ err' = "TypeError"
    /\ UNCHANGED <<arg_vars, x_range, size_vars, shape_vars, axes_vars>>

---------------------------------------------------------------------------
(* Figure size, lines 111-120 *)

\* line 114 without the test of is_horizontal
DefaultLength_AnyOrientation(h, delta_x) == IF delta_x = 200 * Ft THEN 14 ELSE 8

\* line 114
DefaultLength(h, delta_x) == IF h /\ delta_x = 200 * Ft THEN 14 ELSE 8

\* lines 113-114
RinkLength(a, h, delta_x) ==
    IF a.t = "None" THEN DefaultLength(h, delta_x) ELSE a.v

\* line 117, delta_x # 0
Width(rl, delta_y, delta_x) == Rat(rl * delta_y, delta_x)

\* lines 116-120
FigSize(h, rl, delta_y, delta_x) ==
    IF h THEN <<Rat(rl, 1), Width(rl, delta_y, delta_x)>>
    ELSE <<Width(rl, delta_y, delta_x), Rat(rl, 1)>>

MakeFigure ==
    /\ pc = "figure"
    /\ LET delta_x == x_range[2] - x_range[1]
           delta_y == y_range[2] - y_range[1]
           rl == RinkLength(length_arg, is_horizontal, delta_x)
       IN  /\ rink_length' = rl
           /\ IF delta_x = 0
              THEN /\ pc' = "raised"
                   /\ err' = "ZeroDivisionError"
                   /\ figsize' = figsize
              ELSE /\ pc' = "center"
                   /\ err' = err
                   /\ figsize' = FigSize(is_horizontal, rl, delta_y, delta_x)
    /\ UNCHANGED <<arg_vars, heap, range_vars, shape_vars, axes_vars>>

---------------------------------------------------------------------------
(* Shapes.  g holds the geometry as the constructor was given it.          *)

\* mpatches.Rectangle(xy, width, height, color, zorder)
Rectangle(x, y, w, h, color, zorder) ==
    [kind |-> "Rectangle", g |-> <<x, y, w, h>>, color |-> color,
     fill |-> TRUE, zorder |-> zorder]

\* mpatches.Circle(xy, radius, color, fill, zorder)
Circle(x, y, r, color, fill, zorder) ==
    [kind |-> "Circle", g |-> <<x, y, r>>, color |-> color,
     fill |-> fill, zorder |-> zorder]

\* mpatches.Arc(xy, width, height, theta1, theta2, color, zorder): the part
\* of the ellipse from theta1 counterclockwise to theta2, degrees
Arc(x, y, w, h, theta1, theta2, color, zorder) ==
    [kind |-> "Arc", g |-> <<x, y, w, h, theta1, theta2>>, color |-> color,
     fill |-> FALSE, zorder |-> zorder]

\* arc_patch(center, width, height, theta1, theta2, fill=True, color, zorder):
\* the closed polygon through the 50 points at the angles of
\* linspace(theta1, theta2) on the ellipse with semi-axes width and height
arc_patch(x, y, w, h, theta1, theta2, color, zorder) ==
    [kind |-> "Polygon", g |-> <<x, y, w, h, theta1, theta2>>, color |-> color,
     fill |-> TRUE, zorder |-> zorder]

\* ax.plot((x1, x2), (y1, y2), color, zorder)
plot(x1, x2, y1, y2, color, zorder) ==
    [kind |-> "Line2D", g |-> <<x1, x2, y1, y2>>, color |-> color,
     fill |-> FALSE, zorder |-> zorder]

\* line 143
between_hashmarks == (67 * Ft) \div 24

\* line 146
hashmark_edge ==
    Isqrt((15 * Ft) * (15 * Ft) - between_hashmarks * between_hashmarks)

\* line 231 with the goal line's 11 ft in place of 28 - 11
end_board_y_FromEndBoards ==
    Isqrt((28 * Ft) * (28 * Ft) - (11 * Ft) * (11 * Ft)) + (Y42_5 - 28 * Ft)

\* line 231
end_board_y ==
    Isqrt((28 * Ft) * (28 * Ft) - ((28 - 11) * Ft) * ((28 - 11) * Ft))
    + (Y42_5 - 28 * Ft)

\* lines 130-140
CenterPatches ==
    << Rectangle(-(Ft \div 2), -Y42_5, Ft, 85 * Ft, "red", 0),
       Circle(0, 0, Ft \div 2, "blue", TRUE, 0),
       Circle(0, 0, 15 * Ft, "red", FALSE, 0),
       Arc(0, -Y42_5, 20 * Ft, 20 * Ft, 0, 180, "red", 0) >>

\* line 152
BlueLine(s) == Rectangle(25 * Ft * s, -Y42_5, Ft * s, 85 * Ft, "blue", 0)

\* lines 158-166
DotPatches(s, y) ==
    << Circle(69 * Ft * s, y, Ft, "red", TRUE, 0),
       Circle(20 * Ft * s, y, Ft, "red", TRUE, 0),
       Circle(69 * Ft * s, y, 15 * Ft, "red", FALSE, 0) >>

\* lines 171-188
FaceoffLines(s, y, cs) ==
    LET c == 69 * Ft * s * cs
        f175 == (7 * Ft) \div 4
        f475 == (19 * Ft) \div 4
    IN  << plot(c + 2 * Ft * s, c + 6 * Ft * s, y + f175, y + f175, "red", 0),
           plot(c + 2 * Ft * s, c + 6 * Ft * s, y - f175, y - f175, "red", 0),
           plot(c + 2 * Ft * s, c + 2 * Ft * s, y + f175, y + f475, "red", 0),
           plot(c + 2 * Ft * s, c + 2 * Ft * s, y - f175, y - f475, "red", 0),
           plot(c + between_hashmarks * s, c + between_hashmarks * s,
                y - hashmark_edge, y - hashmark_edge - 2 * Ft, "red", 0),
           plot(c + between_hashmarks * s, c + between_hashmarks * s,
                y + hashmark_edge, y + hashmark_edge + 2 * Ft, "red", 0) >>

\* lines 192-194
NetPatches(s) ==
    LET d == (20 * Ft) \div 12
    IN  << Rectangle(89 * Ft * s, -3 * Ft, d * s, 6 * Ft, "grey", 2),
           arc_patch((89 * Ft + d) * s, 0, d, 3 * Ft, 270 + 180 * s, 270,
                     "grey", 2) >>

\* lines 198-199
CreasePatches(s) ==
    LET x845 == (169 * Ft) \div 2
        w45 == (9 * Ft) \div 2
    IN  << Rectangle(89 * Ft * s, -4 * Ft, w45 * (-s), 8 * Ft, "lightblue", -1),
           arc_patch(x845 * s, 0, 2 * Ft, 4 * Ft, 270 - 180 * s, 270,
                     "lightblue", -1) >>

\* line 204 with the angles of side = 1 on both sides
CreaseArc_OneSided(s) ==
    Arc(((169 * Ft) \div 2) * s, 0, 4 * Ft, 8 * Ft, 90, 270, "red", 1)

\* line 204
CreaseArc(s) ==
    Arc(((169 * Ft) \div 2) * s, 0, 4 * Ft, 8 * Ft, 90 * s, 270 * s, "red", 1)

\* lines 202-203
CreaseLines(s) ==
    LET x845 == (169 * Ft) \div 2
    IN  << plot(89 * Ft * s, x845 * s, -4 * Ft, -4 * Ft, "red", 1),
           plot(89 * Ft * s, x845 * s, 4 * Ft, 4 * Ft, "red", 1) >>

\* lines 208-209
RestrictedLines(s) ==
    << plot(89 * Ft * s, 100 * Ft * s, -11 * Ft, -14 * Ft, "red", 0),
       plot(89 * Ft * s, 100 * Ft * s, 11 * Ft, 14 * Ft, "red", 0) >>

\* lines 213-218
CornerArcs(s) ==
    << Arc((100 - 28) * Ft * s, Y42_5 - 28 * Ft, 56 * Ft, 56 * Ft,
           45 - 45 * s, 135 - 45 * s, "black", 2),
       Arc((100 - 28) * Ft * s, -Y42_5 + 28 * Ft, 56 * Ft, 56 * Ft,
           225 + 45 * s, 135 - 135 * s, "black", 2) >>

\* lines 221-223
BoardLines(s) ==
    << plot((100 - 28) * Ft, (28 - 100) * Ft, Y42_5 * s, Y42_5 * s, "black", 2),
       plot(100 * Ft * s, 100 * Ft * s, Y42_5 - 28 * Ft, 28 * Ft - Y42_5,
            "black", 2) >>

\* line 232
GoalLine(s) ==
    plot(89 * Ft * s, 89 * Ft * s, -end_board_y, end_board_y, "red", 1)

\* the patches one pass of the side loop appends, in order (lines 148-218)
SidePatches(s) ==
    <<BlueLine(s)>> \o DotPatches(s, -22 * Ft) \o DotPatches(s, 22 * Ft)
    \o NetPatches(s) \o CreasePatches(s) \o <<CreaseArc(s)>> \o CornerArcs(s)

\* the lines one pass of the side loop plots, in order (lines 148-232)
SideLines(s) ==
    FaceoffLines(s, -22 * Ft, -1) \o FaceoffLines(s, -22 * Ft, 1)
    \o FaceoffLines(s, 22 * Ft, -1) \o FaceoffLines(s, 22 * Ft, 1)
    \o CreaseLines(s) \o RestrictedLines(s) \o BoardLines(s) \o <<GoalLine(s)>>

\* lines 122-146: the centre-ice shapes, drawn once
CenterIce ==
    /\ pc = "center"
    /\ patches' = CenterPatches
    /\ side' = -1
    /\ pc' = "side"
    /\ UNCHANGED <<arg_vars, heap, range_vars, size_vars, lines, axes_vars, err>>

\* lines 148-232: one pass of the loop over side in (-1, 1)
SideLoop ==
    /\ pc = "side"
    /\ patches' = patches \o SidePatches(side)
    /\ lines' = lines \o SideLines(side)
    /\ IF side = -1
       THEN side' = 1 /\ pc' = pc
       ELSE side' = side /\ pc' = "transform"
    /\ UNCHANGED <<arg_vars, heap, range_vars, size_vars, axes_vars, err>>

---------------------------------------------------------------------------
(* Transform and axis limits, lines 234-258 *)

\* line 237
Rotation(h) == IF h THEN 0 ELSE 90

\* lines 237-244
ApplyTransform ==
    /\ pc = "transform"
    /\ trans' = Rotation(is_horizontal)
    /\ ax_patches' = patches
    /\ pc' = "limits"
    /\ UNCHANGED <<arg_vars, heap, range_vars, size_vars, shape_vars,
                   xlim, ylim, inverted, err>>

\* lines 246-249 without the exchange of line 249
SwapRanges_None(h, xr, yr) == <<xr, yr>>

\* lines 246-249: the locals x_range, y_range after the swap
SwapRanges(h, xr, yr) == IF h THEN <<xr, yr>> ELSE <<yr, xr>>

\* lines 255-256
InvertedAxes(h) == IF h THEN {} ELSE {"y"}

\* lines 246-258; the limits line 248 sets are replaced by lines 252-253
SetLimits ==
    /\ pc = "limits"
    /\ LET r == SwapRanges(is_horizontal, x_range, y_range)
       IN  /\ x_range' = r[1]
           /\ y_range' = r[2]
           /\ xlim' = r[1]
           /\ ylim' = r[2]
    /\ inverted' = InvertedAxes(is_horizontal)
    /\ pc' = "done"
    /\ UNCHANGED <<arg_vars, heap, size_vars, shape_vars, trans, ax_patches, err>>

---------------------------------------------------------------------------
\* the arguments a caller passes as x_range or y_range, obj its own list
ArgVals(obj) ==
    {None} \cup {Str(s) : s \in StrVals} \cup {Num(n) : n \in NumVals}
    \cup {ListRef(obj)}

Init ==
    /\ is_horizontal \in BOOLEAN
    /\ x_arg \in ArgVals(XObj)
    \* y_range may be the very list object passed as x_range
    /\ y_arg \in ArgVals(YObj) \cup (IF x_arg.t = "list" THEN {x_arg} ELSE {})
    /\ length_arg \in {None} \cup {Num(n) : n \in LengthVals}
    /\ \E xs \in Lists, ys \in Lists :
          /\ x_arg.t # "list" => xs = <<>>
          /\ y_arg # ListRef(YObj) => ys = <<>>
          /\ heap = (XObj :> xs) @@ (YObj :> ys)
    /\ x_range = <<>>
    /\ y_range = <<>>
    /\ rink_length = 0
    /\ figsize = <<>>
    /\ patches = <<>>
    /\ lines = <<>>
    /\ side = 0
    /\ trans = -1
    /\ ax_patches = <<>>
    /\ xlim = <<>>
    /\ ylim = <<>>
    /\ inverted = {}
    /\ pc = "x_range"
    /\ err = "none"

Next ==
    \/ NormalizeX
    \/ NormalizeY
    \/ MakeFigure
    \/ CenterIce
    \/ SideLoop
    \/ ApplyTransform
    \/ SetLimits

Spec == Init /\ [][Next]_vars

---------------------------------------------------------------------------
(* Properties *)

\* the local x_range holds the normalised x-range (bound by lines 75-91 and
\* not yet exchanged with y_range by line 249)
XNormalized == x_range # <<>> /\ (pc # "done" \/ is_horizontal)

\* the local y_range holds the normalised y-range
YNormalized == y_range # <<>> /\ (pc # "done" \/ is_horizontal)

FullX == <<-100 * Ft, 100 * Ft>>
FullY == <<-Y42_5, Y42_5>>

\* clamp(v, lo, hi)
Clamp(v, lo, hi) == IF v < lo THEN lo ELSE IF v > hi THEN hi ELSE v

InDomain(r, full) ==
    /\ r[1] <= r[2]
    /\ full[1] <= r[1] /\ r[1] <= full[2]
    /\ full[1] <= r[2] /\ r[2] <= full[2]

\* C1: for every x_range and y_range input the normalised range of each axis
\* has lower <= upper and both bounds inside the axis's domain, [-100, 100]
\* for x and [-42.5, 42.5] for y.
C1_RangesInDomain ==
    /\ XNormalized => InDomain(x_range, FullX)
    /\ YNormalized => InDomain(y_range, FullY)

\* C2: draw_rink raises no error for any x_range / y_range input, and the
\* computation of the display size always completes.
C2_NoError == err = "none" /\ pc # "raised"

\* C3: the caller's list object holds after the call exactly the elements it
\* held before: no step of draw_rink changes a list object of the caller.
C3_CallerListUnchanged == [][heap' = heap]_vars

\* C4: for a single number v as x_range the normalised x-range is
\* (clamp(v, -100, 100), 100), except that it is the full domain (-100, 100)
\* when clamp(v, -100, 100) >= 100.
C4_SingleNumberX ==
    (XNormalized /\ x_arg.t = "num") =>
        LET c == Clamp(x_arg.v, -100 * Ft, 100 * Ft)
        IN  x_range = IF c >= 100 * Ft THEN FullX ELSE <<c, 100 * Ft>>

\* a single number above the domain has been normalised to the full domain
C4_Witness ==
    /\ pc = "y_range" /\ x_arg = Num(150 * Ft) /\ x_range = FullX

\* C5: x_range="half" gives (0, 100), x_range="ozone" gives (25, 100),
\* y_range="half" gives (0, 42.5), and y_range="ozone", no preset for y, gives
\* the full y-domain (-42.5, 42.5).
C5_Presets ==
    /\ (XNormalized /\ x_arg = Str("half")) => x_range = <<0, 100 * Ft>>
    /\ (XNormalized /\ x_arg = Str("ozone")) => x_range = <<25 * Ft, 100 * Ft>>
    /\ (YNormalized /\ y_arg = Str("half")) => y_range = <<0, Y42_5>>
    /\ (YNormalized /\ y_arg = Str("ozone")) => y_range = FullY

\* both presets of x and both strings of y have been normalised
C5_Witness ==
    /\ pc = "figure"
    /\ \/ x_arg = Str("ozone") /\ y_arg = Str("ozone") /\ y_range = FullY
       \/ x_arg = Str("half") /\ y_arg = Str("half") /\ x_range[1] = 0

\* the first two elements [a, b] of the list passed as argument a, before the
\* call appended to it, when both are numbers with a > b; <<>> otherwise
ReversedPair(arg, h, appended) ==
    IF arg.t # "list" THEN <<>>
    ELSE LET l == h[arg.ref]
         IN  IF Len(l) - appended >= 2 /\ IsNumber(l[1]) /\ IsNumber(l[2])
                /\ l[1].v > l[2].v
             THEN <<l[1].v, l[2].v>>
             ELSE <<>>

\* what C6 says [a, b], a > b, normalises to
SwappedClamped(p, full) ==
    LET lo == Clamp(p[2], full[1], full[2])
        hi == Clamp(p[1], full[1], full[2])
    IN  IF lo >= full[2] THEN full ELSE <<lo, hi>>

\* elements draw_rink has appended to the list object of argument arg so far
Appended(arg) ==
    (IF x_arg.t = "list" /\ x_arg.ref = arg.ref /\ x_range # <<>> THEN 1 ELSE 0)
    + (IF y_arg.t = "list" /\ y_arg.ref = arg.ref /\ y_range # <<>> THEN 1 ELSE 0)

\* C6: a pair [a, b] with a > b given as x_range or as y_range normalises to
\* (b, a) with both bounds clamped into the axis's domain, reset to the full
\* domain only when the clamped lower bound is >= the domain maximum.
C6_ReversedPairClamped ==
    /\ (XNormalized /\ ReversedPair(x_arg, heap, Appended(x_arg)) # <<>>) =>
          x_range = SwappedClamped(ReversedPair(x_arg, heap, Appended(x_arg)), FullX)
    /\ (YNormalized /\ ReversedPair(y_arg, heap, Appended(y_arg)) # <<>>) =>
          y_range = SwappedClamped(ReversedPair(y_arg, heap, Appended(y_arg)), FullY)

\* C7: when rink_length is not given the length is 14 exactly when
\* is_horizontal and the normalised x-range is (-100, 100), and 8 otherwise;
\* the width is length * (y-extent / x-extent).  draw_rink(True, None, None)
\* gives x=(-100,100), y=(-42.5,42.5), length 14, width 5.95 (119/20);
\* draw_rink(True, "ozone", "half") gives x=(25,100), y=(0,42.5), length 8.
C7_DefaultSize ==
    /\ (length_arg = None /\ rink_length # 0 /\ XNormalized) =>
          rink_length = IF is_horizontal /\ x_range = FullX THEN 14 ELSE 8
    /\ (length_arg = None /\ figsize # <<>> /\ XNormalized /\ YNormalized) =>
          LET w == IF is_horizontal THEN figsize[2] ELSE figsize[1]
          IN  w[1] * (x_range[2] - x_range[1])
                 = rink_length * (y_range[2] - y_range[1]) * w[2]
    /\ (figsize # <<>> /\ is_horizontal /\ length_arg = None
          /\ x_arg = None /\ y_arg = None) =>
          /\ x_range = FullX /\ y_range = FullY
          /\ figsize = <<<<14, 1>>, <<119, 20>>>>
    /\ (figsize # <<>> /\ is_horizontal /\ length_arg = None
          /\ x_arg = Str("ozone") /\ y_arg = Str("half")) =>
          /\ x_range = <<25 * Ft, 100 * Ft>> /\ y_range = <<0, Y42_5>>
          /\ figsize[1] = <<8, 1>>

\* the default call has made its figure, and so has a vertical one
C7_Witness ==
    /\ pc = "center" /\ length_arg = None
    /\ \/ is_horizontal /\ x_arg = None /\ y_arg = None /\ rink_length = 14
       \/ ~is_horizontal /\ x_range = FullX /\ rink_length = 8

\* the figure size has length and width exchanged
SizeSwapped == figsize[2] = <<rink_length, 1>>
SizeStraight == figsize[1] = <<rink_length, 1>>

\* C8 as stated: when is_horizontal is false the horizontal display axis gets
\* the normalised y-range, the vertical one the normalised x-range, length and
\* width are exchanged, and the one inverted axis is the axis carrying the
\* y-range (the horizontal display axis); when true, no swap, no inversion.
C8_WidthAxisInverted ==
    [][pc = "limits" =>
         IF is_horizontal
         THEN xlim' = x_range /\ ylim' = y_range /\ SizeStraight /\ inverted' = {}
         ELSE xlim' = y_range /\ ylim' = x_range /\ SizeSwapped
              /\ inverted' = {"x"}]_vars

\* C8, amended: as stated, but the one inverted axis is the vertical display
\* axis, which carries the rink's length (x) range.
C8_LengthAxisInverted ==
    [][pc = "limits" =>
         IF is_horizontal
         THEN xlim' = x_range /\ ylim' = y_range /\ SizeStraight /\ inverted' = {}
         ELSE xlim' = y_range /\ ylim' = x_range /\ SizeSwapped
              /\ inverted' = {"y"}]_vars

\* a vertical rink with different x and y ranges has had its limits set
C8_Witness ==
    /\ pc = "done" /\ ~is_horizontal /\ xlim # ylim /\ xlim = FullY
    /\ inverted # {}

Mod360(t) == ((t % 360) + 360) % 360

\* the reflection of a shape across x = 0
Mirror(sh) ==
    LET g == sh.g
    IN  [sh EXCEPT !.g =
           CASE sh.kind = "Rectangle" -> <<-g[1], g[2], -g[3], g[4]>>
             [] sh.kind = "Circle" -> <<-g[1], g[2], g[3]>>
             [] sh.kind = "Arc" -> <<-g[1], g[2], g[3], g[4], 180 - g[6], 180 - g[5]>>
             [] sh.kind = "Polygon" -> <<-g[1], g[2], g[3], g[4], 180 - g[5], 180 - g[6]>>
             [] sh.kind = "Line2D" -> <<-g[1], -g[2], g[3], g[4]>>]

\* one representative of the descriptions that draw the same shape: a
\* rectangle by its lower left corner, angles within a turn, a polygon by its
\* first angle and its sweep, a segment by its ends in order
Canon(sh) ==
    LET g == sh.g
    IN  [sh EXCEPT !.g =
           CASE sh.kind = "Rectangle" ->
                  <<Min(g[1], g[1] + g[3]), Min(g[2], g[2] + g[4]), Abs(g[3]), Abs(g[4])>>
             [] sh.kind = "Circle" -> g
             [] sh.kind = "Arc" -> <<g[1], g[2], g[3], g[4], Mod360(g[5]), Mod360(g[6])>>
             [] sh.kind = "Polygon" -> <<g[1], g[2], g[3], g[4], Mod360(g[5]), g[6] - g[5]>>
             [] sh.kind = "Line2D" ->
                  IF g[1] < g[2] \/ (g[1] = g[2] /\ g[3] <= g[4]) THEN g
                  ELSE <<g[2], g[1], g[4], g[3]>>]

LoopDone == pc \in {"transform", "limits", "done"}

NCenter == Len(CenterPatches)

\* C9: after the side loop, the reflection across x = 0 of every patch and
\* every line emitted inside the loop is in the catalog too, with the same
\* size, style and z-order; the centre-ice shapes are emitted once.
C9_MirrorSymmetric ==
    LoopDone =>
        LET loop == {Canon(patches[j]) : j \in (NCenter + 1)..Len(patches)}
            drawn == {Canon(lines[j]) : j \in 1..Len(lines)}
        IN  /\ \A i \in (NCenter + 1)..Len(patches) :
                  Canon(Mirror(patches[i])) \in loop
            /\ \A i \in 1..Len(lines) : Canon(Mirror(lines[i])) \in drawn
            /\ \A i \in 1..NCenter :
                  /\ Canon(patches[i]) \notin loop
                  /\ \A j \in 1..NCenter :
                        Canon(patches[j]) = Canon(patches[i]) => j = i

\* both passes of the side loop have run
C9_Witness ==
    /\ pc = "transform" /\ side = 1
    /\ Len(patches) > 2 * NCenter /\ Len(lines) > 2

\* the goal lines: the vertical red lines drawn above the ice markings
GoalLines ==
    {i \in 1..Len(lines) :
        /\ lines[i].color = "red" /\ lines[i].zorder = 1
        /\ lines[i].g[1] = lines[i].g[2]}

Sign(a) == IF a < 0 THEN -1 ELSE IF a > 0 THEN 1 ELSE 0

\* the point (x, y) ends on the corner arc a: on its side of the rink, in the
\* quarter the arc spans, not beyond the side boards, and on the circle to
\* the resolution of the arithmetic (one step further out is off it)
EndsOnArc(x, y, a) ==
    LET dx == Abs(x) - Abs(a.g[1])
        dy == Abs(y) - Abs(a.g[2])
        r == a.g[3] \div 2
    IN  /\ a.kind = "Arc" /\ a.color = "black"
        /\ Sign(a.g[1]) = Sign(x) /\ Sign(a.g[2]) = Sign(y)
        /\ dx >= 0 /\ dy >= 0
        /\ Abs(y) <= Y42_5
        /\ dx * dx + dy * dy <= r * r
        /\ dx * dx + (dy + 1) * (dy + 1) > r * r

GoalLinesOnArcs ==
    /\ Cardinality(GoalLines) = 2
    /\ \A i \in GoalLines :
          /\ Abs(lines[i].g[1]) = 89 * Ft
          /\ lines[i].g[3] = -lines[i].g[4]
          /\ \A k \in {3, 4} : \E j \in 1..Len(patches) :
                EndsOnArc(lines[i].g[1], lines[i].g[k], patches[j])

\* the half-length of the goal lines is v feet and hundredths, to within tol
HalfLengthNear(v100, tol) ==
    \A i \in GoalLines : Abs(100 * Abs(lines[i].g[4]) - v100 * Ft) <= 100 * tol

\* C10 as stated: the goal-line half-length is approximately 36.65 ft (here:
\* to within 0.05 ft) and each goal line, at x = +/-89 from -end_board_y to
\* end_board_y, ends on the 28-ft corner arc, never beyond the boards.
C10_HalfLength3665 ==
    LoopDone => GoalLinesOnArcs /\ HalfLengthNear(3665, Ft \div 20)

\* C10, amended: the half-length is approximately 36.75 ft (to within 0.005
\* ft); the rest as stated.
C10_HalfLength3675 ==
    LoopDone => GoalLinesOnArcs /\ HalfLengthNear(3675, Ft \div 200)

\* both goal lines and the four corner arcs have been drawn
C10_Witness ==
    /\ pc = "limits" /\ Cardinality(GoalLines) = 2
    /\ Cardinality({j \in 1..Len(patches) : patches[j].color = "black"}) = 4

===========================================================================
